---- MODULE Spec2Model ----
(***************************************************************************)
(* MetaQuery V1: the governance validator (validator.py), the YAML loader   *)
(* (loader.py) and the `build` command (cli.py).                            *)
(*                                                                          *)
(* A Python str is a sequence of one-character strings, so that the         *)
(* regular expressions, str.strip and sorted() are computed, not assumed.   *)
(* A dict is a sequence of <<key, value>> pairs in insertion order, except  *)
(* fields_by_id, whose iteration order is never observed (only membership,  *)
(* lookup and sorted(keys())), which is a function.  Optional values are    *)
(* sequences of length 0 (None) or 1.                                       *)
(***************************************************************************)
EXTENDS Integers, Sequences, FiniteSets, TLC

VARIABLES fields_in, selection_in, clock, pc, fields_by_id, selected,
          result, second, written, audit_json, exit_code, sql_calls

vars == <<fields_in, selection_in, clock, pc, fields_by_id, selected,
          result, second, written, audit_json, exit_code, sql_calls>>

\* ------------------------------------------------------------------ bounds
\* Longest selection enumerated.
MaxLen == 3
\* Last second the ambient clock can show (it starts at 0).
MaxClock == 1

\* --------------------------------------------------------------- alphabet
\* Characters of the model's strings with their code points (sorted() and
\* the character classes of the regular expressions go by code point).
Ord(c) ==
    CASE c = "\n" -> 10
      [] c = "-"  -> 45
      [] c = "C"  -> 67
      [] c = "M"  -> 77
      [] c = "a"  -> 97
      [] c = "b"  -> 98
      [] c = "m"  -> 109

Chars == {"\n", "-", "C", "M", "a", "b", "m"}

\* [A-Z0-9_]
SourceClass == {c \in Chars : (Ord(c) >= 65 /\ Ord(c) <= 90)
                              \/ (Ord(c) >= 48 /\ Ord(c) <= 57)
                              \/ Ord(c) = 95}

\* [A-Za-z0-9_]
FieldIdClass == SourceClass \cup {c \in Chars : Ord(c) >= 97 /\ Ord(c) <= 122}

\* str.isspace for the characters str.strip() removes
IsSpace(c) == c = "\n"

\* re.compile(r"^[cls]+$").match(s): Python's `$` matches at the end of the
\* string and also just before a newline that ends the string.
ReMatch(cls, s) ==
    LET body == IF Len(s) > 0 /\ s[Len(s)] = "\n"
                THEN SubSeq(s, 1, Len(s) - 1)
                ELSE s
    IN  /\ Len(body) > 0
        /\ \A i \in 1..Len(body) : body[i] \in cls

SOURCE_RE(s) == ReMatch(SourceClass, s)

FIELD_ID_RE(s) == ReMatch(FieldIdClass, s)

\* str.strip()
RECURSIVE Strip(_)
Strip(s) ==
    IF Len(s) = 0 THEN s
    ELSE IF IsSpace(s[1]) THEN Strip(Tail(s))
    ELSE IF IsSpace(s[Len(s)]) THEN Strip(SubSeq(s, 1, Len(s) - 1))
    ELSE s

\* str < str: lexicographic by code point, a proper prefix first
RECURSIVE StrLess(_, _)
StrLess(s, t) ==
    IF Len(t) = 0 THEN FALSE
    ELSE IF Len(s) = 0 THEN TRUE
    ELSE IF Ord(s[1]) < Ord(t[1]) THEN TRUE
    ELSE IF Ord(s[1]) > Ord(t[1]) THEN FALSE
    ELSE StrLess(Tail(s), Tail(t))

\* sorted(iterable of str)
RECURSIVE Sorted(_)
Sorted(S) ==
    IF S = {} THEN <<>>
    ELSE LET x == CHOOSE y \in S : \A z \in S : z = y \/ StrLess(y, z)
         IN  <<x>> \o Sorted(S \ {x})

\* ------------------------------------------------------------------ dicts
RECURSIVE DictHas(_, _)
DictHas(d, k) ==
    IF Len(d) = 0 THEN FALSE
    ELSE IF d[1][1] = k THEN TRUE
    ELSE DictHas(Tail(d), k)

\* d.get(k, default)
RECURSIVE DictGet(_, _, _)
DictGet(d, k, default) ==
    IF Len(d) = 0 THEN default
    ELSE IF d[1][1] = k THEN d[1][2]
    ELSE DictGet(Tail(d), k, default)

\* d[k] = v: an existing key keeps its position, a new key goes last
DictSet(d, k, v) ==
    IF DictHas(d, k)
    THEN [i \in 1..Len(d) |-> IF d[i][1] = k THEN <<k, v>> ELSE d[i]]
    ELSE Append(d, <<k, v>>)

\* list(d.keys())
DictKeys(d) == [i \in 1..Len(d) |-> d[i][1]]

\* Range of a list
Range(xs) == {xs[i] : i \in 1..Len(xs)}

\* ------------------------------------------------------------- validator
\* ValidationResult(...): the dataclass defaults; timestamp is the ambient
\* clock read by the default factory.
ValidationResult(now) ==
    [metaquery_version |-> "0.1.0",
     schema_version    |-> 1,
     timestamp         |-> now,
     decision          |-> "BLOCK",
     status            |-> "ERROR",
     version           |-> "V1",
     source            |-> <<>>,
     fields_selected   |-> <<>>,
     controls          |-> <<>>,
     warnings          |-> <<>>,
     error             |-> <<>>]

\* _finalize(audit)
_finalize(audit) ==
    LET a1 == IF audit.decision # "ALLOW"
              THEN [audit EXCEPT !.decision = "BLOCK"] ELSE audit
    IN  IF a1.status # "OK" THEN [a1 EXCEPT !.status = "ERROR"] ELSE a1

\* audit.controls[name] = "PASS"
Pass(audit, name) ==
    [audit EXCEPT !.controls = DictSet(@, name, "PASS")]

\* A failing check that records FAIL but forgets to attach the error.
Fail_NoError(audit, name, err) ==
    [audit EXCEPT !.controls = DictSet(@, name, "FAIL")]

\* audit.controls[name] = "FAIL"; audit.error = {...}
Fail(audit, name, err) ==
    [audit EXCEPT !.controls = DictSet(@, name, "FAIL"), !.error = <<err>>]

\* A syntax check that lists the offending ids sorted, not as given.
invalid_ids_Sorted(selected_field_ids) ==
    Sorted({fid \in Range(selected_field_ids) : ~FIELD_ID_RE(fid)})

\* invalid_ids = [fid for fid in selected_field_ids if not FIELD_ID_RE.match(fid)]
invalid_ids(selected_field_ids) ==
    SelectSeq(selected_field_ids, LAMBDA fid : ~FIELD_ID_RE(fid))

\* An existence check that reports each unknown id only once.
RECURSIVE unknown_Once(_, _)
unknown_Once(fields, selected_field_ids) ==
    IF Len(selected_field_ids) = 0 THEN <<>>
    ELSE LET n    == Len(selected_field_ids)
             fid  == selected_field_ids[n]
             init == SubSeq(selected_field_ids, 1, n - 1)
         IN  IF fid \in DOMAIN fields \/ fid \in Range(init)
             THEN unknown_Once(fields, init)
             ELSE Append(unknown_Once(fields, init), fid)

\* unknown = [fid for fid in selected_field_ids if fid not in fields_by_id]
unknown(fields, selected_field_ids) ==
    SelectSeq(selected_field_ids, LAMBDA fid : fid \notin DOMAIN fields)

\* A count of the extra occurrences only: duplicates.get(fid, 0) + 1.
BumpDuplicate_Extra(duplicates, fid) ==
    DictSet(duplicates, fid, DictGet(duplicates, fid, 0) + 1)

\* duplicates[fid] = duplicates.get(fid, 1) + 1
BumpDuplicate(duplicates, fid) ==
    DictSet(duplicates, fid, DictGet(duplicates, fid, 1) + 1)

\* A loop whose `continue` is lost: every occurrence is appended.
RECURSIVE DedupeLoop_KeepAll(_, _, _, _, _)
DedupeLoop_KeepAll(sel, i, deduped, seen, duplicates) ==
    IF i > Len(sel) THEN [deduped |-> deduped, duplicates |-> duplicates]
    ELSE LET fid == sel[i]
         IN  IF fid \in seen
             THEN DedupeLoop_KeepAll(sel, i + 1, Append(deduped, fid), seen,
                                     BumpDuplicate(duplicates, fid))
             ELSE DedupeLoop_KeepAll(sel, i + 1, Append(deduped, fid),
                                     seen \cup {fid}, duplicates)

\* for fid in selected_field_ids: ... (the state of the loop before index i)
RECURSIVE DedupeLoop(_, _, _, _, _)
DedupeLoop(sel, i, deduped, seen, duplicates) ==
    IF i > Len(sel) THEN [deduped |-> deduped, duplicates |-> duplicates]
    ELSE LET fid == sel[i]
         IN  IF fid \in seen
             THEN DedupeLoop(sel, i + 1, deduped, seen,
                             BumpDuplicate(duplicates, fid))
             ELSE DedupeLoop(sel, i + 1, Append(deduped, fid),
                             seen \cup {fid}, duplicates)

\* for fid, count in duplicates.items(): audit.warnings.append({...})
\* (message is a rendering of field_id and count)
Warnings(duplicates) ==
    [i \in 1..Len(duplicates) |->
        [code     |-> "DUPLICATE_FIELDS",
         field_id |-> duplicates[i][1],
         count    |-> duplicates[i][2]]]

\* A grouping that prepends: each source's list ends up in reverse order.
RECURSIVE GroupSources_Prepend(_, _, _, _)
GroupSources_Prepend(fields, deduped, i, sources) ==
    IF i > Len(deduped) THEN sources
    ELSE LET fid == deduped[i]
             src == fields[fid]
         IN  GroupSources_Prepend(fields, deduped, i + 1,
                 DictSet(sources, src, <<fid>> \o DictGet(sources, src, <<>>)))

\* for fid in deduped: sources.setdefault(src, []).append(fid)
RECURSIVE GroupSources(_, _, _, _)
GroupSources(fields, deduped, i, sources) ==
    IF i > Len(deduped) THEN sources
    ELSE LET fid == deduped[i]
             src == fields[fid]
         IN  GroupSources(fields, deduped, i + 1,
                 DictSet(sources, src, Append(DictGet(sources, src, <<>>), fid)))

\* An ALLOW that leaves status at its default.
Allow_StatusUnset(audit, only_source, deduped) ==
    [audit EXCEPT !.source = <<only_source>>, !.decision = "ALLOW",
                  !.fields_selected = deduped]

\* An ALLOW that leaves fields_selected as the raw selection.
Allow_RawFields(audit, only_source, deduped) ==
    [audit EXCEPT !.source = <<only_source>>, !.decision = "ALLOW",
                  !.status = "OK"]

\* audit.source = only_source; decision = "ALLOW"; status = "OK";
\* fields_selected = list(deduped)
Allow(audit, only_source, deduped) ==
    [audit EXCEPT !.source = <<only_source>>, !.decision = "ALLOW",
                  !.status = "OK", !.fields_selected = deduped]

\* validate_v1(fields_by_id, selected_field_ids), with `now` the clock
\* reading taken when the ValidationResult is constructed.  fields maps
\* each field_id to its Field's datatable_id, the only attribute read.
validate_v1(fields, selected_field_ids, now) ==
    LET a0 == [ValidationResult(now) EXCEPT !.fields_selected = selected_field_ids]
    IN
    IF Len(selected_field_ids) = 0
    THEN [deduped |-> selected_field_ids,
          audit   |-> _finalize(Fail(a0, "non_empty_selection",
                                     [code |-> "EMPTY_SELECTION"]))]
    ELSE
    LET a1  == Pass(a0, "non_empty_selection")
        inv == invalid_ids(selected_field_ids)
    IN
    IF Len(inv) > 0
    THEN [deduped |-> selected_field_ids,
          audit   |-> _finalize(Fail(a1, "all_fields_exist",
                                     [code |-> "INVALID_FIELD_ID",
                                      invalid_field_ids |-> inv]))]
    ELSE
    LET unk == unknown(fields, selected_field_ids)
    IN
    IF Len(unk) > 0
    THEN [deduped |-> selected_field_ids,
          audit   |-> _finalize(Fail(a1, "all_fields_exist",
                                     [code |-> "FIELD_NOT_FOUND",
                                      unknown_field_ids |-> unk,
                                      available_fields  |-> Sorted(DOMAIN fields)]))]
    ELSE
    LET a2      == Pass(a1, "all_fields_exist")
        loop    == DedupeLoop(selected_field_ids, 1, <<>>, {}, <<>>)
        deduped == loop.deduped
        a3      == [Pass(a2, "no_duplicates")
                       EXCEPT !.warnings = @ \o Warnings(loop.duplicates)]
        sources == GroupSources(fields, deduped, 1, <<>>)
    IN
    IF Len(sources) # 1
    THEN [deduped |-> deduped,
          audit   |-> _finalize(Fail(a3, "single_source",
                                     [code |-> "MULTI_SOURCE_NOT_ALLOWED",
                                      sources_found |->
                                          Sorted({sources[i][1] : i \in 1..Len(sources)}),
                                      fields_by_source |-> sources]))]
    ELSE
    LET a4          == Pass(a3, "single_source")
        only_source == sources[1][1]
    IN
    IF ~SOURCE_RE(only_source)
    THEN [deduped |-> deduped,
          audit   |-> _finalize(Fail(a4, "valid_source_name",
                                     [code |-> "INVALID_SOURCE_NAME",
                                      source |-> only_source]))]
    ELSE [deduped |-> deduped,
          audit   |-> _finalize(Allow(Pass(a4, "valid_source_name"),
                                      only_source, deduped))]

\* ----------------------------------------------------------------- loader
\* load_fields raises YamlLoadError: an entry whose field_id or datatable_id
\* is empty after strip().  (The entries are mappings of strings; sql_expr
\* and label play no part in validation.)
load_fields_raises(raw) ==
    \E k \in DOMAIN raw : Len(Strip(k)) = 0 \/ Len(Strip(raw[k])) = 0

\* load_fields: out[field_id] = Field(datatable_id=datatable_id.strip(), ...)
\* (the key is the field_id as written, not stripped)
load_fields(raw) == [k \in DOMAIN raw |-> Strip(raw[k])]

\* load_selection raises YamlLoadError: an item that is empty after strip()
load_selection_raises(raw) ==
    \E i \in 1..Len(raw) : Len(Strip(raw[i])) = 0

\* load_selection: out.append(item.strip())
load_selection(raw) == [i \in 1..Len(raw) |-> Strip(raw[i])]

\* ----------------------------------------------------------------- inputs
FieldIds == {<<"a">>, <<"b">>, <<"b", "\n">>, <<"a", "-">>}

\* Ids a selection may name: the catalog's candidates and a blank one.
SelectionIds == FieldIds \cup {<<"\n">>}

Sources == {<<"M">>, <<"C">>, <<"m">>}

\* Source tables an entry may be filed under; the entry with the malformed
\* id is filed under one table only.
SourcesOf(fid) == IF FIELD_ID_RE(fid) THEN Sources ELSE {<<"M">>}

Catalogs ==
    UNION {{f \in [D -> Sources] : \A k \in D : f[k] \in SourcesOf(k)} :
           D \in SUBSET FieldIds}

Selections == UNION {[1..n -> SelectionIds] : n \in 0..MaxLen}

\* ------------------------------------------------------------------ state
\* fields_in, selection_in: the field entries and the id list supplied from
\* outside, either the content of fields.yml / selection.yml read by the
\* loader or the arguments of a direct call of validate_v1 (as the tests do).
\* clock: the last reading of the ambient clock, in seconds.
\* pc: position in `build` (start, loaded, validated, audit_written,
\* sql_built, query_written, exit) or of a direct caller (called, recalled).
\* result: None or the (deduped, audit) of the first validate_v1 call.
\* second: None or the arguments and result of a direct caller's second call.
\* written: names of the files written, in order; audit_json: None or the
\* record dumped to audit.json; exit_code: None or the typer.Exit code;
\* sql_calls: calls of build_sql_v1 so far.
Init ==
    /\ fields_in \in Catalogs
    /\ selection_in \in Selections
    /\ clock = 0
    /\ pc = "start"
    /\ fields_by_id = <<>>
    /\ selected = <<>>
    /\ result = <<>>
    /\ second = <<>>
    /\ written = <<>>
    /\ audit_json = <<>>
    /\ exit_code = <<>>
    /\ sql_calls = 0

\* -------------------------------------------------------------- cli build
\* except YamlLoadError: raise typer.Exit(code=2)
LoadError ==
    /\ pc = "start"
    /\ load_fields_raises(fields_in) \/ load_selection_raises(selection_in)
    /\ pc' = "exit"
    /\ exit_code' = <<2>>
    /\ UNCHANGED <<fields_in, selection_in, clock, fields_by_id, selected,
                   result, second, written, audit_json, sql_calls>>

\* fields_by_id = load_fields(fields); selected = load_selection(selection)
Load ==
    /\ pc = "start"
    /\ ~load_fields_raises(fields_in)
    /\ ~load_selection_raises(selection_in)
    /\ fields_by_id' = load_fields(fields_in)
    /\ selected' = load_selection(selection_in)
    /\ pc' = "loaded"
    /\ UNCHANGED <<fields_in, selection_in, clock, result, second, written,
                   audit_json, exit_code, sql_calls>>

\* deduped, audit = validate_v1(fields_by_id, selected)
Validate ==
    /\ pc = "loaded"
    /\ \E now \in clock..MaxClock :
          /\ result' = <<validate_v1(fields_by_id, selected, now)>>
          /\ clock' = now
    /\ pc' = "validated"
    /\ UNCHANGED <<fields_in, selection_in, fields_by_id, selected, second,
                   written, audit_json, exit_code, sql_calls>>

\* _write_json(Path("audit.json"), audit.__dict__)
WriteAudit ==
    /\ pc = "validated"
    /\ written' = Append(written, "audit.json")
    /\ audit_json' = <<result[1].audit>>
    /\ pc' = "audit_written"
    /\ UNCHANGED <<fields_in, selection_in, clock, fields_by_id, selected,
                   result, second, exit_code, sql_calls>>

\* A test of the wrong field: status is never "BLOCK", so nothing is stopped.
Blocked_Never(audit) == audit.status = "BLOCK"

\* if audit.decision != "ALLOW":
Blocked(audit) == audit.decision # "ALLOW"

\* ... raise typer.Exit(code=1)
ExitBlock ==
    /\ pc = "audit_written"
    /\ Blocked(result[1].audit)
    /\ exit_code' = <<1>>
    /\ pc' = "exit"
    /\ UNCHANGED <<fields_in, selection_in, clock, fields_by_id, selected,
                   result, second, written, audit_json, sql_calls>>

\* sql = build_sql_v1(audit.source or "", deduped, fields_by_id)
BuildSql ==
    /\ pc = "audit_written"
    /\ ~Blocked(result[1].audit)
    /\ sql_calls' = sql_calls + 1
    /\ pc' = "sql_built"
    /\ UNCHANGED <<fields_in, selection_in, clock, fields_by_id, selected,
                   result, second, written, audit_json, exit_code>>

\* _write_text(Path("query.sql"), sql)
WriteQuery ==
    /\ pc = "sql_built"
    /\ written' = Append(written, "query.sql")
    /\ pc' = "query_written"
    /\ UNCHANGED <<fields_in, selection_in, clock, fields_by_id, selected,
                   result, second, audit_json, exit_code, sql_calls>>

\* _write_text(Path("explain.txt"), ...); raise typer.Exit(code=0)
WriteExplain ==
    /\ pc = "query_written"
    /\ written' = Append(written, "explain.txt")
    /\ exit_code' = <<0>>
    /\ pc' = "exit"
    /\ UNCHANGED <<fields_in, selection_in, clock, fields_by_id, selected,
                   result, second, audit_json, sql_calls>>

\* ----------------------------------------------------------- direct calls
\* deduped, audit = validate_v1(fields, selection), as in test_validator.py
Call ==
    /\ pc = "start"
    /\ fields_by_id' = fields_in
    /\ selected' = selection_in
    /\ \E now \in clock..MaxClock :
          /\ result' = <<validate_v1(fields_in, selection_in, now)>>
          /\ clock' = now
    /\ pc' = "called"
    /\ UNCHANGED <<fields_in, selection_in, second, written, audit_json,
                   exit_code, sql_calls>>

\* a second call with the same catalog and the same selection
CallAgain ==
    /\ pc = "called"
    /\ \E now \in clock..MaxClock :
          /\ second' = <<[kind      |-> "same",
                          selection |-> selected,
                          ret       |-> validate_v1(fields_by_id, selected, now)]>>
          /\ clock' = now
    /\ pc' = "recalled"
    /\ UNCHANGED <<fields_in, selection_in, fields_by_id, selected, result,
                   written, audit_json, exit_code, sql_calls>>

\* a second call with the first call's deduplicated list as the selection
CallDeduped ==
    /\ pc = "called"
    /\ result[1].audit.decision = "ALLOW"
    /\ \E now \in clock..MaxClock :
          /\ second' = <<[kind      |-> "deduped",
                          selection |-> result[1].deduped,
                          ret       |-> validate_v1(fields_by_id,
                                                    result[1].deduped, now)]>>
          /\ clock' = now
    /\ pc' = "recalled"
    /\ UNCHANGED <<fields_in, selection_in, fields_by_id, selected, result,
                   written, audit_json, exit_code, sql_calls>>

Next ==
    \/ LoadError
    \/ Load
    \/ Validate
    \/ WriteAudit
    \/ ExitBlock
    \/ BuildSql
    \/ WriteQuery
    \/ WriteExplain
    \/ Call
    \/ CallAgain
    \/ CallDeduped

Spec == Init /\ [][Next]_vars

\* ------------------------------------------------------------ properties
\* The selection with duplicates removed, first occurrences kept (up to i).
RECURSIVE KeepFirst(_, _)
KeepFirst(sel, i) ==
    IF i = 0 THEN <<>>
    ELSE IF \E j \in 1..(i - 1) : sel[j] = sel[i]
    THEN KeepFirst(sel, i - 1)
    ELSE Append(KeepFirst(sel, i - 1), sel[i])

\* The elements of sel that lie in S, in the order of sel.
Those(sel, S) == SelectSeq(sel, LAMBDA x : x \in S)

\* Number of occurrences of x in sel.
Occurrences(sel, x) == Cardinality({i \in 1..Len(sel) : sel[i] = x})

\* xs lists exactly the strings of S, ascending.
IsSortedListOf(xs, S) ==
    /\ Range(xs) = S
    /\ \A i \in 1..(Len(xs) - 1) : StrLess(xs[i], xs[i + 1])

Returned == result # <<>>

TheAudit == result[1].audit

AllValid == \A x \in Range(selected) : FIELD_ID_RE(x)

AllExist == \A x \in Range(selected) : x \in DOMAIN fields_by_id

SourcesSpanned == {fields_by_id[x] : x \in Range(selected)}

HasDuplicate == \E i, j \in 1..Len(selected) : i < j /\ selected[i] = selected[j]

HasError(code) ==
    /\ TheAudit.decision = "BLOCK"
    /\ Len(TheAudit.error) = 1
    /\ TheAudit.error[1].code = code

AllowedAsDeduped ==
    /\ TheAudit.decision = "ALLOW"
    /\ TheAudit.status = "OK"
    /\ result[1].deduped = KeepFirst(selected, Len(selected))
    /\ TheAudit.fields_selected = KeepFirst(selected, Len(selected))

\* C1 as stated: every non-empty selection of valid, existing ids that share
\* one source table is ALLOWed with status OK, and the returned list and
\* fields_selected are the selection without its repeats, in first-occurrence
\* order.
C1_AnySingleSourceAllowed ==
    (/\ Returned
     /\ Len(selected) > 0
     /\ AllValid
     /\ AllExist
     /\ Cardinality(SourcesSpanned) = 1)
    => AllowedAsDeduped

\* C1 amended: the same, for selections whose one shared source table id
\* matches ^[A-Z0-9_]+$.
C1_ValidSingleSourceAllowed ==
    (/\ Returned
     /\ Len(selected) > 0
     /\ AllValid
     /\ AllExist
     /\ Cardinality(SourcesSpanned) = 1
     /\ \A s \in SourcesSpanned : SOURCE_RE(s))
    => AllowedAsDeduped

C1_Witness ==
    /\ Returned
    /\ AllValid
    /\ AllExist
    /\ Cardinality(SourcesSpanned) = 1
    /\ \A s \in SourcesSpanned : SOURCE_RE(s)
    /\ HasDuplicate
    /\ TheAudit.decision = "ALLOW"
    /\ Len(result[1].deduped) = 2
    /\ selected[1] # selected[2]

ControlOrder ==
    <<"non_empty_selection", "all_fields_exist", "no_duplicates",
      "single_source", "valid_source_name">>

CodesOf(control) ==
    CASE control = "non_empty_selection" -> {"EMPTY_SELECTION"}
      [] control = "all_fields_exist"    -> {"INVALID_FIELD_ID", "FIELD_NOT_FOUND"}
      [] control = "no_duplicates"       -> {}
      [] control = "single_source"       -> {"MULTI_SOURCE_NOT_ALLOWED"}
      [] control = "valid_source_name"   -> {"INVALID_SOURCE_NAME"}

\* C2: the recorded controls are a prefix of the fixed order; all are PASS,
\* except that on BLOCK the last one recorded, and only it, is FAIL, and then
\* exactly one error object is attached, with a code of that check.
C2_ControlsShortCircuit ==
    Returned =>
        LET c == TheAudit.controls
            n == Len(c)
        IN  /\ n \in 1..Len(ControlOrder)
            /\ \A i \in 1..n : c[i][1] = ControlOrder[i]
            /\ \A i \in 1..(n - 1) : c[i][2] = "PASS"
            /\ TheAudit.decision = "BLOCK" =>
                  /\ c[n][2] = "FAIL"
                  /\ Len(TheAudit.error) = 1
                  /\ TheAudit.error[1].code \in CodesOf(c[n][1])
            /\ TheAudit.decision # "BLOCK" => c[n][2] = "PASS"

C2_Witness ==
    /\ Returned
    /\ TheAudit.decision = "BLOCK"
    /\ Len(TheAudit.controls) = 4
    /\ TheAudit.controls[4] = <<"single_source", "FAIL">>
    /\ HasDuplicate

\* C3: decision is ALLOW or BLOCK; status is OK exactly on ALLOW and ERROR
\* otherwise; the error is present exactly on BLOCK; source is set exactly
\* on ALLOW.
C3_OutcomeConsistent ==
    Returned =>
        /\ TheAudit.decision \in {"ALLOW", "BLOCK"}
        /\ TheAudit.status = (IF TheAudit.decision = "ALLOW" THEN "OK" ELSE "ERROR")
        /\ (Len(TheAudit.error) = 1) <=> (TheAudit.decision = "BLOCK")
        /\ (Len(TheAudit.source) = 1) <=> (TheAudit.decision = "ALLOW")

C3_Witness ==
    /\ Returned
    /\ TheAudit.decision = "ALLOW"
    /\ TheAudit.status = "OK"
    /\ TheAudit.source = <<<<"C">>>>
    /\ TheAudit.error = <<>>

\* C4: a selection whose accepted ids resolve to two or more source tables is
\* BLOCKed with MULTI_SOURCE_NOT_ALLOWED; sources_found lists the distinct
\* sources ascending, and fields_by_source maps each of them to its
\* deduplicated field ids in selection order.
C4_MultiSourceBlocked ==
    (/\ Returned
     /\ AllValid
     /\ AllExist
     /\ Cardinality(SourcesSpanned) >= 2)
    => /\ HasError("MULTI_SOURCE_NOT_ALLOWED")
       /\ IsSortedListOf(TheAudit.error[1].sources_found, SourcesSpanned)
       /\ LET by == TheAudit.error[1].fields_by_source
          IN  /\ Len(by) = Cardinality(SourcesSpanned)
              /\ Range(DictKeys(by)) = SourcesSpanned
              /\ \A s \in SourcesSpanned :
                    DictGet(by, s, <<>>) =
                        Those(KeepFirst(selected, Len(selected)),
                              {x \in DOMAIN fields_by_id : fields_by_id[x] = s})

C4_Witness ==
    /\ Returned
    /\ HasError("MULTI_SOURCE_NOT_ALLOWED")
    /\ TheAudit.error[1].sources_found = <<<<"C">>, <<"M">>>>
    /\ DictKeys(TheAudit.error[1].fields_by_source) = <<<<"M">>, <<"C">>>>
    /\ Len(DictGet(TheAudit.error[1].fields_by_source, <<"M">>, <<>>)) = 2

C6_UnknownIdBlocked ==
    (Returned /\ Len(selected) > 0 /\ AllValid /\ ~AllExist)
    => /\ HasError("FIELD_NOT_FOUND")
       /\ TheAudit.error[1].unknown_field_ids =
              Those(selected, Range(selected) \ DOMAIN fields_by_id)
       /\ IsSortedListOf(TheAudit.error[1].available_fields, DOMAIN fields_by_id)
       /\ Len(TheAudit.error[1].available_fields) = Cardinality(DOMAIN fields_by_id)

C6_Witness ==
    /\ Returned
    /\ HasError("FIELD_NOT_FOUND")
    /\ Len(TheAudit.error[1].unknown_field_ids) = 1
    /\ Len(selected) = 3
    /\ Cardinality({fields_by_id[x] : x \in Range(selected) \cap DOMAIN fields_by_id}) = 2
    /\ Len(TheAudit.error[1].available_fields) >= 3

DuplicatedIds == {x \in Range(selected) : Occurrences(selected, x) >= 2}

DuplicatesWarned ==
    /\ Len(TheAudit.warnings) = Cardinality(DuplicatedIds)
    /\ \A i \in 1..Len(TheAudit.warnings) :
          /\ TheAudit.warnings[i].code = "DUPLICATE_FIELDS"
          /\ TheAudit.warnings[i].field_id \in DuplicatedIds
          /\ TheAudit.warnings[i].count =
                Occurrences(selected, TheAudit.warnings[i].field_id)
    /\ \A x \in DuplicatedIds :
          \E i \in 1..Len(TheAudit.warnings) : TheAudit.warnings[i].field_id = x
    /\ DictGet(TheAudit.controls, "no_duplicates", "absent") = "PASS"
    /\ (Cardinality(SourcesSpanned) = 1 /\ \A s \in SourcesSpanned : SOURCE_RE(s))
          => TheAudit.decision = "ALLOW"

\* C7 as stated: every selection with a duplicate id gets one
\* DUPLICATE_FIELDS warning per distinct duplicated id, counting all of its
\* occurrences; no_duplicates is PASS and the duplicates alone do not BLOCK.
C7_AnyDuplicatesWarned ==
    (Returned /\ HasDuplicate) => DuplicatesWarned

\* C7 amended: the same, for selections in which every id is syntactically
\* valid and exists in the catalog.
C7_CheckedDuplicatesWarned ==
    (Returned /\ HasDuplicate /\ AllValid /\ AllExist) => DuplicatesWarned

C7_Witness ==
    /\ Returned
    /\ AllValid
    /\ AllExist
    /\ Len(TheAudit.warnings) = 1
    /\ TheAudit.warnings[1].count = 3
    /\ TheAudit.decision = "ALLOW"

\* C8: after an ALLOW, validating the returned deduplicated list against the
\* same catalog is an ALLOW again, with the same accepted list, the same
\* source, and no duplicate left to warn about.
C8_Idempotent ==
    (second # <<>> /\ second[1].kind = "deduped") =>
        LET again == second[1].ret
        IN  /\ again.audit.decision = "ALLOW"
            /\ again.audit.status = "OK"
            /\ again.deduped = result[1].deduped
            /\ again.audit.fields_selected = TheAudit.fields_selected
            /\ again.audit.source = TheAudit.source
            /\ again.audit.controls = TheAudit.controls
            /\ again.audit.warnings = <<>>
            /\ again.audit.error = <<>>

C8_Witness ==
    /\ second # <<>>
    /\ second[1].kind = "deduped"
    /\ HasDuplicate
    /\ Len(second[1].selection) = 2
    /\ Len(TheAudit.warnings) = 1

\* C9: two calls with the same catalog and the same selection return the
\* same accepted list and the same audit record, field for field, and leave
\* the arguments as they were.
C9_Deterministic ==
    (second # <<>> /\ second[1].kind = "same") =>
        /\ second[1].ret.deduped = result[1].deduped
        /\ second[1].ret.audit = TheAudit
        /\ second[1].selection = selection_in
        /\ fields_by_id = fields_in

InBuild == pc \in {"validated", "audit_written", "sql_built", "query_written"}
              \/ (pc = "exit" /\ exit_code # <<2>>)

\* C10: in `build`, build_sql_v1 is called only on ALLOW and only after
\* audit.json holds the audit record; once validation has run the record is
\* written whatever the decision; on BLOCK the command exits with code 1
\* having written neither query.sql nor explain.txt.
C10_BuildGated ==
    /\ sql_calls > 0 =>
          /\ TheAudit.decision = "ALLOW"
          /\ Len(written) >= 1 /\ written[1] = "audit.json"
          /\ audit_json = <<TheAudit>>
    /\ (InBuild /\ pc # "validated") =>
          /\ Len(written) >= 1 /\ written[1] = "audit.json"
          /\ audit_json = <<TheAudit>>
    /\ (InBuild /\ TheAudit.decision = "BLOCK") =>
          /\ sql_calls = 0
          /\ Range(written) \subseteq {"audit.json"}
          /\ pc = "exit" => exit_code = <<1>>
    /\ exit_code = <<1>> => TheAudit.decision = "BLOCK"
    /\ \A i \in 1..Len(written) :
          written[i] \in {"query.sql", "explain.txt"} => sql_calls = 1

C10_Witness ==
    /\ pc = "exit"
    /\ exit_code = <<1>>
    /\ written = <<"audit.json">>
    /\ audit_json = <<TheAudit>>
    /\ TheAudit.decision = "BLOCK"
    /\ sql_calls = 0

C10_WitnessAllow ==
    /\ pc = "exit"
    /\ exit_code = <<0>>
    /\ written = <<"audit.json", "query.sql", "explain.txt">>
    /\ sql_calls = 1

====
